---- MODULE Spec2Model ----
(***************************************************************************)
(* Crop matching (runCropMatching) and k-value calibration                 *)
(* (computeCropKValues) of the Pattern-Fitting-Algorithm repository.       *)
(*                                                                         *)
(* Number representation.  JavaScript numbers are modelled in fixed point: *)
(*   weather values          whole numbers                                 *)
(*   k values, importances   tenths            (20 is 2.0)                 *)
(*   relative deltas         exact fractions   [n, d]                      *)
(*   square roots            ten-thousandths                               *)
(*   exponents               hundred-thousandths (70900000 is 709)         *)
(*   exp values, scores      millionths        (500000 is 0.5)             *)
(*   reported window scores  ten-thousandths   (5000 is 0.5), the grid     *)
(*                           Math.round(score * 10000) / 10000 rounds to   *)
(*   weights                 numerators over one denominator per crop      *)
(*   ratios, MAX_NAN_RATIO   percent                                       *)
(* TLC integers are 32 bit; LongDiv and MulMicro keep products below 2^31. *)
(***************************************************************************)
EXTENDS Integers, Sequences, FiniteSets, TLC

\* ------------------------------------------------------------------------
\* Generic helpers
\* ------------------------------------------------------------------------

Abs(x) == IF x < 0 THEN -x ELSE x

Max2(a, b) == IF a >= b THEN a ELSE b

Min2(a, b) == IF a <= b THEN a ELSE b

RECURSIVE Pow10(_)
Pow10(n) == IF n = 0 THEN 1 ELSE 10 * Pow10(n - 1)

\* floor(a * 10^n / b) by long division, for a >= 0, b > 0
RECURSIVE LongDiv(_, _, _)
LongDiv(a, b, n) ==
    IF n = 0 THEN a \div b
    ELSE (a \div b) * Pow10(n) + LongDiv((a % b) * 10, b, n - 1)

\* floor(sqrt(n)) by bisection on [lo, hi)
RECURSIVE ISqrtIn(_, _, _)
ISqrtIn(n, lo, hi) ==
    IF hi - lo <= 1 THEN lo
    ELSE LET mid == (lo + hi) \div 2
         IN  IF mid * mid <= n THEN ISqrtIn(n, mid, hi) ELSE ISqrtIn(n, lo, mid)

ISqrt(n) == ISqrtIn(n, 0, 46341)

\* a * b / 10^6 for 0 <= a, b <= 10^6, rounded to the nearest millionth
MulMicro(a, b) ==
    LET ah == a \div 1000
        al == a % 1000
    IN  (ah * b + 500) \div 1000 + (al * b + 500000) \div 1000000

RECURSIVE SumSeq(_)
SumSeq(s) == IF s = <<>> THEN 0 ELSE Head(s) + SumSeq(Tail(s))

\* the elements of s whose index is in keep, in order, from index i on
\* (Array.prototype.filter)
RECURSIVE SelectIdx(_, _, _)
SelectIdx(s, keep, i) ==
    IF i > Len(s) THEN <<>>
    ELSE (IF i \in keep THEN <<s[i]>> ELSE <<>>) \o SelectIdx(s, keep, i + 1)

\* ------------------------------------------------------------------------
\* Weather values and daily records
\* ------------------------------------------------------------------------

Num(v) == [kind |-> "num", v |-> v]

Null == [kind |-> "null", v |-> 0]

NaN == [kind |-> "nan", v |-> 0]

\* val !== null && !isNaN(val)
IsValidVal(x) == x.kind = "num"

\* field in day
HasField(day, field) == field \in DOMAIN day.vals

\* field in day && day[field] !== null && !isNaN(day[field])
IsValidField(day, field) == HasField(day, field) /\ IsValidVal(day.vals[field])

\* day[varName]: undefined when the key is absent, and isNaN(undefined)
GetVal(day, field) == IF HasField(day, field) THEN day.vals[field] ELSE NaN

\* ------------------------------------------------------------------------
\* Scoring arithmetic
\* ------------------------------------------------------------------------

\* Math.abs(forecast - optimal) / (Math.abs(optimal) + 1e-5), as a fraction
RelDelta(forecast, optimal) ==
    [n |-> Abs(forecast - optimal) * 100000, d |-> Abs(optimal) * 100000 + 1]

\* Math.pow(d, 0.5) in ten-thousandths; the scale of the radicand adapts
\* to keep it below 2^31
PowHalf(r) ==
    LET q == r.n \div r.d
    IN  IF q < 20 THEN ISqrt(LongDiv(r.n, r.d, 8))
        ELSE IF q < 2000 THEN 10 * ISqrt(LongDiv(r.n, r.d, 6))
        ELSE IF q < 200000 THEN 100 * ISqrt(LongDiv(r.n, r.d, 4))
        ELSE 1000 * ISqrt(LongDiv(r.n, r.d, 2))

\* e^(-n) in millionths for a whole n >= 0
RECURSIVE ExpNegInt(_)
ExpNegInt(n) ==
    IF n = 0 THEN 1000000
    ELSE IF n > 14 THEN 0
    ELSE MulMicro(367879, ExpNegInt(n - 1))

\* the Taylor terms (-r)^j / j! of e^(-r), r in millionths below 10^6
RECURSIVE ExpTerms(_, _, _)
ExpTerms(r, j, term) ==
    IF j > 12 \/ term = 0 THEN 0
    ELSE LET next == MulMicro(term, r) \div j
         IN  (IF j % 2 = 1 THEN -next ELSE next) + ExpTerms(r, j + 1, next)

ExpNegFrac(r) == 1000000 + ExpTerms(r, 1, 1000000)

\* Math.exp(x) in millionths for x <= 0 in hundred-thousandths
ExpMicro(x) ==
    LET y == -x
    IN  MulMicro(ExpNegInt(y \div 100000), ExpNegFrac((y % 100000) * 10))

\* safeExp on one value: clip to [-709, 709], then exp.  k values are not
\* negative in the inputs, so the exponent -k * sqrt(d) is never positive.
safeExp(x) ==
    LET clippedVal == Max2(-70900000, Min2(70900000, x))
    IN  ExpMicro(clippedVal)

\* logisticScore on one relative delta: 1 / (1 + exp(-k * d^0.5)), in
\* millionths; k in tenths times the root in ten-thousandths is the exponent
\* in hundred-thousandths
logisticScoreMutDoubled(relDelta, k) ==
    LET powValue == PowHalf(relDelta)
        negK == -(k * powValue)
        expValue == safeExp(negK)
    IN  LongDiv(2 * expValue, 1000000 + expValue, 6)

logisticScore(relDelta, k) ==
    LET powValue == PowHalf(relDelta)
        negK == -(k * powValue)
        expValue == safeExp(negK)
    IN  LongDiv(1000000, 1000000 + expValue, 6)

\* ------------------------------------------------------------------------
\* Configuration
\* ------------------------------------------------------------------------

DEFAULT_STEP_SIZE == 30

DEFAULT_MAX_NAN_RATIO == 15

DEFAULT_K == 20

DEFAULT_REQUIRED_FIELDS ==
    << "soil_moisture_0_to_10cm_mean", "temperature_2m_max", "temperature_2m_min",
       "wind_speed_10m_mean", "relative_humidity_2m_mean", "precipitation_sum" >>

DEFAULT_CONFIG ==
    [STEP_SIZE |-> DEFAULT_STEP_SIZE,
     MAX_NAN_RATIO |-> DEFAULT_MAX_NAN_RATIO,
     DEFAULT_K |-> DEFAULT_K,
     REQUIRED_FIELDS |-> DEFAULT_REQUIRED_FIELDS]

\* { ...DEFAULT_CONFIG, ...clientConfig }
MergeConfig(client) ==
    [opt \in DOMAIN DEFAULT_CONFIG |->
        IF opt \in DOMAIN client THEN client[opt] ELSE DEFAULT_CONFIG[opt]]

\* the set of the elements of a sequence
Range(s) == {s[j] : j \in DOMAIN s}

\* DEFAULT_VARIABLE_WEIGHTS[field] = 1 / REQUIRED_FIELDS.length
DefaultVariableWeights(cfg) ==
    [den |-> Len(cfg.REQUIRED_FIELDS),
     num |-> [f \in Range(cfg.REQUIRED_FIELDS) |-> 1]]

\* ------------------------------------------------------------------------
\* Sorting
\* ------------------------------------------------------------------------

\* x placed after every element of the sorted s whose date is not later
\* new Date(day.date) of a date that does not parse: Invalid Date; every
\* valid date of the model is 1 or later
InvalidDate == 0

\* a.date - b.date > 0; the difference is NaN when either date is invalid,
\* and the sort takes NaN as 0
DateAfter(a, b) == a.date # InvalidDate /\ b.date # InvalidDate /\ a.date > b.date

RECURSIVE InsertByDate(_, _)
InsertByDate(s, x) ==
    IF s = <<>> THEN <<x>>
    ELSE IF ~DateAfter(Head(s), x) THEN <<Head(s)>> \o InsertByDate(Tail(s), x)
    ELSE <<x>> \o s

RECURSIVE SortFrom(_, _, _)
SortFrom(s, j, acc) ==
    IF j > Len(s) THEN acc ELSE SortFrom(s, j + 1, InsertByDate(acc, s[j]))

\* days.sort((a, b) => a.date - b.date): ascending and stable
SortByDate(days) == SortFrom(days, 1, <<>>)

\* w placed after every element of the sorted s whose score is not lower
RECURSIVE InsertByScoreMutUnstable(_, _)
InsertByScoreMutUnstable(s, w) ==
    IF s = <<>> THEN <<w>>
    ELSE IF Head(s).score > w.score THEN <<Head(s)>> \o InsertByScoreMutUnstable(Tail(s), w)
    ELSE <<w>> \o s

RECURSIVE InsertByScore(_, _)
InsertByScore(s, w) ==
    IF s = <<>> THEN <<w>>
    ELSE IF Head(s).score >= w.score THEN <<Head(s)>> \o InsertByScore(Tail(s), w)
    ELSE <<w>> \o s

RECURSIVE SortScoreFrom(_, _, _)
SortScoreFrom(s, j, acc) ==
    IF j > Len(s) THEN acc ELSE SortScoreFrom(s, j + 1, InsertByScore(acc, s[j]))

\* cropWindows.sort((a, b) => b.score - a.score): descending and stable
SortByScoreDesc(windows) == SortScoreFrom(windows, 1, <<>>)

\* s.slice(0, n)
Take(s, n) == SubSeq(s, 1, Min2(n, Len(s)))

\* ------------------------------------------------------------------------
\* computeScore
\* ------------------------------------------------------------------------

\* const k = kValues[varName] || CONFIG.DEFAULT_K
KUsed(kValues, varName, cfg) ==
    IF varName \in DOMAIN kValues /\ kValues[varName].kind = "num" /\ kValues[varName].v # 0
    THEN kValues[varName].v
    ELSE cfg.DEFAULT_K

\* const weight = variableWeights[varName] || 1 / CONFIG.REQUIRED_FIELDS.length,
\* as a numerator over variableWeights.den
WeightUsed(variableWeights, varName, cfg) ==
    IF varName \in DOMAIN variableWeights.num /\ variableWeights.num[varName] # 0
    THEN variableWeights.num[varName]
    ELSE variableWeights.den \div Len(cfg.REQUIRED_FIELDS)

NoDetail ==
    [k_value |-> 0, weight |-> 0, valid_points |-> 0, nan_forecast |-> 0,
     nan_optimal |-> 0, score |-> 0, weighted_score |-> 0]

\* the index of every day on which both sides hold a number
ValidPairsMutForecastOnly(forecastVals, optimalVals) ==
    LET idx == [j \in DOMAIN forecastVals |-> j]
    IN  SelectIdx(idx, {j \in DOMAIN idx : IsValidVal(forecastVals[j])}, 1)

ValidPairs(forecastVals, optimalVals) ==
    LET idx == [j \in DOMAIN forecastVals |-> j]
        Both(j) == /\ IsValidVal(forecastVals[j])
                   /\ j \in DOMAIN optimalVals
                   /\ IsValidVal(optimalVals[j])
    IN  SelectIdx(idx, {j \in DOMAIN idx : Both(j)}, 1)

\* one iteration of the loop over REQUIRED_FIELDS: what the variable yields
ScoreVariable(windowData, cropData, kValues, variableWeights, varName, cfg) ==
    IF \/ ~(\A j \in DOMAIN windowData : HasField(windowData[j], varName))
       \/ ~(\A j \in DOMAIN cropData : HasField(cropData[j], varName))
    THEN [outcome |-> "not found in data", detail |-> NoDetail]
    ELSE
      LET forecastVals == [j \in DOMAIN windowData |-> windowData[j].vals[varName]]
          optimalVals == [j \in DOMAIN cropData |-> cropData[j].vals[varName]]
          nanForecast == Cardinality({j \in DOMAIN forecastVals : ~IsValidVal(forecastVals[j])})
          nanOptimal == Cardinality({j \in DOMAIN optimalVals : ~IsValidVal(optimalVals[j])})
          validPairs == ValidPairs(forecastVals, optimalVals)
          validCount == Len(validPairs)
      IN  IF validCount = 0
          THEN [outcome |-> "no valid data points", detail |-> NoDetail]
          ELSE
            LET k == KUsed(kValues, varName, cfg)
                weight == WeightUsed(variableWeights, varName, cfg)
                relDeltas == [p \in DOMAIN validPairs |->
                                RelDelta(forecastVals[validPairs[p]].v,
                                         optimalVals[validPairs[p]].v)]
                dailyScores == [p \in DOMAIN relDeltas |-> logisticScore(relDeltas[p], k)]
                variableScore == SumSeq(dailyScores) \div Len(dailyScores)
                weightedScore == variableScore * weight
            IN  [outcome |-> "scored",
                 detail |-> [k_value |-> k, weight |-> weight,
                             valid_points |-> validCount,
                             nan_forecast |-> nanForecast,
                             nan_optimal |-> nanOptimal,
                             score |-> variableScore,
                             weighted_score |-> weightedScore]]

\* the effect of one variable on scores, totalWeight and the window log
AccumulateVariableMutCount(acc, varName, r) ==
    IF r.outcome = "scored"
    THEN [scores |-> Append(acc.scores, r.detail.weighted_score),
          totalWeight |-> acc.totalWeight + 1,
          variables |-> (varName :> r.detail) @@ acc.variables,
          warnings |-> acc.warnings]
    ELSE [acc EXCEPT !.warnings = Append(@, <<r.outcome, varName>>)]

AccumulateVariable(acc, varName, r) ==
    IF r.outcome = "scored"
    THEN [scores |-> Append(acc.scores, r.detail.weighted_score),
          totalWeight |-> acc.totalWeight + r.detail.weight,
          variables |-> (varName :> r.detail) @@ acc.variables,
          warnings |-> acc.warnings]
    ELSE [acc EXCEPT !.warnings = Append(@, <<r.outcome, varName>>)]

RECURSIVE ScoreFields(_, _, _, _, _, _, _)
ScoreFields(windowData, cropData, kValues, variableWeights, cfg, j, acc) ==
    IF j > Len(cfg.REQUIRED_FIELDS) THEN acc
    ELSE LET varName == cfg.REQUIRED_FIELDS[j]
             r == ScoreVariable(windowData, cropData, kValues, variableWeights, varName, cfg)
         IN  ScoreFields(windowData, cropData, kValues, variableWeights, cfg, j + 1,
                         AccumulateVariable(acc, varName, r))

\* computeScore: score is <<>> for null, else <<finalScore>> in millionths
computeScore(windowData, cropData, kValues, variableWeights, cfg) ==
    LET acc == ScoreFields(windowData, cropData, kValues, variableWeights, cfg, 1,
                           [scores |-> <<>>, totalWeight |-> 0,
                            variables |-> <<>>, warnings |-> <<>>])
    IN  IF Len(acc.scores) = 0 \/ acc.totalWeight = 0
        THEN [score |-> <<>>, variables |-> acc.variables,
              warnings |-> Append(acc.warnings, <<"No valid scores computed">>)]
        ELSE [score |-> <<SumSeq(acc.scores) \div acc.totalWeight>>,
              variables |-> acc.variables, warnings |-> acc.warnings]

\* Math.round(score * 10000) / 10000, in ten-thousandths
Round4(score) == (score + 50) \div 100

\* ------------------------------------------------------------------------
\* Weight derivation
\* ------------------------------------------------------------------------

\* the required fields that have a k value which is not null, in order
ValidKFields(kValues, cfg) ==
    LET Has(j) == /\ cfg.REQUIRED_FIELDS[j] \in DOMAIN kValues
                  /\ kValues[cfg.REQUIRED_FIELDS[j]].kind # "null"
    IN  SelectIdx(cfg.REQUIRED_FIELDS, {j \in DOMAIN cfg.REQUIRED_FIELDS : Has(j)}, 1)

\* Object.values(validKValues).reduce((sum, val) => sum + val, 0) || 1, tenths
KSumMutAllKeys(kValues, cfg) ==
    LET sum == SumSeq([j \in 1..Len(DEFAULT_REQUIRED_FIELDS) |->
                   IF DEFAULT_REQUIRED_FIELDS[j] \in DOMAIN kValues
                   THEN kValues[DEFAULT_REQUIRED_FIELDS[j]].v ELSE 0])
    IN  IF sum = 0 THEN 10 ELSE sum

KSum(kValues, cfg) ==
    LET valid == ValidKFields(kValues, cfg)
        sum == SumSeq([j \in DOMAIN valid |-> kValues[valid[j]].v])
    IN  IF sum = 0 THEN 10 ELSE sum

\* variableWeights[field] = validKValues[field] / kSum: k * L over kSum * L
DeriveWeights(kValues, cfg) ==
    IF DOMAIN kValues = {}
    THEN DefaultVariableWeights(cfg)
    ELSE [den |-> KSum(kValues, cfg) * Len(cfg.REQUIRED_FIELDS),
          num |-> [f \in Range(ValidKFields(kValues, cfg)) |->
                     kValues[f].v * Len(cfg.REQUIRED_FIELDS)]]

\* the warnings that the k values of a crop add to its log
KWarnings(kValues, cfg) ==
    IF DOMAIN kValues = {}
    THEN << <<"No k_values found, using defaults">> >>
    ELSE LET Missing(j) == cfg.REQUIRED_FIELDS[j] \notin Range(ValidKFields(kValues, cfg))
             miss == SelectIdx(cfg.REQUIRED_FIELDS, {j \in DOMAIN cfg.REQUIRED_FIELDS : Missing(j)}, 1)
         IN  [j \in DOMAIN miss |-> <<"Missing k value, will use default", miss[j]>>]

\* ------------------------------------------------------------------------
\* runCropMatching: state
\* ------------------------------------------------------------------------

VARIABLES
    crops,            \* the crops argument: the crop records in key order
    forecastData,     \* the forecastData argument
    clientConfig,     \* the clientConfig argument
    CONFIG,           \* { ...DEFAULT_CONFIG, ...clientConfig }
    logData,          \* summary, crop_logs, errors
    forecastDf,       \* the forecast, dates parsed, sorted by date
    results,          \* results of processCrops
    pc,               \* "start", "crops", "windows", "done"
    cropIdx,          \* the number of crops the for..in loop has finished
    cropDf,           \* daily_weather of the current crop, sorted by date
    kValues,          \* crop.k_values || {}
    variableWeights,  \* the weights of the current crop
    cropWindows,      \* the scored windows of the current crop
    i,                \* the window loop index
    scoreCalls,       \* the calls of computeScore so far: crop name, index i
    callerCrops,      \* computeCropKValues: the crop records as the caller passed them
    updatedCrops,     \* computeCropKValues: { ...crops }, the caller's crop objects
    baseImportance,   \* computeCropKValues: the importance of each variable, in key order
    logs,             \* computeCropKValues: the shared logs object
    calibrationLogs,  \* computeCropKValues: the calibration log entries
    calPc,            \* computeCropKValues: "idle", "crops", "done"
    calIdx            \* computeCropKValues: the number of crops the loop has finished

vars == << crops, forecastData, clientConfig, CONFIG, logData, forecastDf, results,
           pc, cropIdx, cropDf, kValues, variableWeights, cropWindows, i, scoreCalls,
           callerCrops, updatedCrops, baseImportance, logs, calibrationLogs, calPc, calIdx >>

calVars == << callerCrops, updatedCrops, baseImportance, logs, calibrationLogs, calPc, calIdx >>

inputVars == << crops, forecastData, clientConfig, CONFIG >>

\* ------------------------------------------------------------------------
\* Inputs
\* ------------------------------------------------------------------------

T == "temperature_2m_max"

P == "precipitation_sum"

MaxForecastLen == 4

MaxDuration == 2

MaxCompanions == 1

\* a key that the record does not have
Absent == [kind |-> "absent", v |-> 0]

\* every sequence over S of length at most n
SeqsUpTo(S, n) == UNION {[1..m -> S] : m \in 0..n}

\* the values of one day: tv for T, pv for P, other for every other field of
\* DEFAULT_REQUIRED_FIELDS; a field given Absent is left out of the record
Vals(tv, pv, other) ==
    LET all == [f \in Range(DEFAULT_REQUIRED_FIELDS) |->
                   IF f = T THEN tv ELSE IF f = P THEN pv ELSE other]
    IN  [f \in {g \in DOMAIN all : all[g].kind # "absent"} |-> all[f]]

Day(date, vals) == [date |-> date, vals |-> vals]

\* the days dated first, first + 1, ... that hold ts for T, ps for P
Days(first, ts, ps, other) ==
    [j \in DOMAIN ts |-> Day(first + j - 1, Vals(ts[j], ps[j], other))]

\* the same value on every day of ts
Const(ts, v) == [j \in DOMAIN ts |-> v]

Reverse(s) == [j \in DOMAIN s |-> s[Len(s) + 1 - j]]

Crop(name, hasWeather, days, k) ==
    [name |-> name, has_weather |-> hasWeather, daily_weather |-> days, k_values |-> k]

\* k values for all six fields
FullK ==
    [f \in Range(DEFAULT_REQUIRED_FIELDS) |->
        IF f = T THEN Num(20) ELSE IF f = P THEN Num(10) ELSE Num(5)]

Input(cs, forecast, client) ==
    [crops |-> cs, forecastData |-> forecast, clientConfig |-> client]

\* Forecast variety: every series of whole six-field days with T in
\* {10, 12, null}, four crops, five configurations
ForecastVariety ==
    LET ts2 == <<Num(10), Num(12)>>
        history(ts, ps) == Days(101, ts, ps, Num(5))
        cropSet ==
          { Crop("A", TRUE, history(ts2, Const(ts2, Num(5))), T :> Num(20)),
            Crop("A", TRUE, history(<<Num(10)>>, <<Num(5)>>), FullK),
            Crop("A", TRUE, history(Reverse(ts2), Const(ts2, Num(5))), <<>>),
            Crop("A", TRUE, history(ts2, Const(ts2, Null)), T :> Num(20) @@ P :> Num(10)) }
        configs ==
          { <<>>,
            [STEP_SIZE |-> 1],
            [STEP_SIZE |-> 1, REQUIRED_FIELDS |-> <<T>>],
            [STEP_SIZE |-> 1, REQUIRED_FIELDS |-> <<T, P>>, MAX_NAN_RATIO |-> 50],
            [STEP_SIZE |-> 2, REQUIRED_FIELDS |-> <<T, P>>] }
    IN  { Input(<<c>>, Days(1, ts, Const(ts, Num(5)), Num(5)), cfg) :
            c \in cropSet,
            ts \in SeqsUpTo({Num(10), Num(12), Null}, MaxForecastLen),
            cfg \in configs }

\* Crop variety: histories of up to MaxDuration days with T in {10, 12} and
\* P 5, null or absent, in date order or reversed, and six sets of k values,
\* against three forecasts that hold T and P only
CropVariety ==
    LET shapes == { <<Num(10), Num(5)>>, <<Num(12), Num(5)>>,
                    <<Num(10), Null>>, <<Num(12), Absent>> }
        history(h) == Days(101, [j \in DOMAIN h |-> h[j][1]],
                                [j \in DOMAIN h |-> h[j][2]], Absent)
        histories == { history(h) : h \in SeqsUpTo(shapes, MaxDuration) }
        someK == { T :> Num(20), T :> Num(20) @@ P :> Num(10) }
        allK == someK \cup
                { <<>>, T :> Num(0) @@ P :> Num(0), T :> Null @@ P :> Num(10),
                  T :> Num(0) @@ P :> Num(30) }
        h2 == history(<< <<Num(10), Num(5)>>, <<Num(12), Num(5)>> >>)
        cropSet ==
          { Crop("A", TRUE, h, k) : h \in histories, k \in someK } \cup
          { Crop("A", TRUE, Reverse(h), k) : h \in histories, k \in {T :> Num(20)} } \cup
          { Crop("A", TRUE, h2, k) : k \in allK }
        t4 == <<Num(10), Num(12), Num(10), Num(12)>>
        forecasts ==
          { Days(1, t4, Const(t4, Absent), Absent),
            Reverse(Days(1, t4, <<Num(5), Num(5), Null, Num(5)>>, Absent)),
            Days(1, <<Null, Num(12), Null, Num(10)>>, <<Null, Num(5), Num(5), Num(0)>>, Absent) }
        configs ==
          { [STEP_SIZE |-> 1],
            [STEP_SIZE |-> 1, REQUIRED_FIELDS |-> <<T>>],
            [STEP_SIZE |-> 1, REQUIRED_FIELDS |-> <<T, P>>, MAX_NAN_RATIO |-> 50] }
    IN  { Input(<<c>>, f, cfg) : c \in cropSet, f \in forecasts, cfg \in configs }

\* Close scores: a one-day history of T = 1 against forecasts with T in
\* {1, 26, 37}, whose scores differ by less than the rounding grid
CloseScores ==
    { Input(<< Crop("A", TRUE, Days(101, <<Num(1)>>, <<Absent>>, Absent), T :> Num(20)) >>,
            Days(1, ts, Const(ts, Absent), Absent),
            [STEP_SIZE |-> 1, REQUIRED_FIELDS |-> <<T>>]) :
        ts \in SeqsUpTo({Num(1), Num(26), Num(37)}, MaxForecastLen) }

\* the crops that accompany the main crop of a batch: one has no
\* daily_weather, one has no days, one is longer than any forecast, one is
\* an ordinary crop
Companion(name, kind) ==
    LET t3 == [j \in 1..(MaxForecastLen + 1) |-> Num(10)]
    IN  CASE kind = "no weather" -> Crop(name, FALSE, <<>>, T :> Num(20))
          [] kind = "no days" -> Crop(name, TRUE, <<>>, T :> Num(20))
          [] kind = "too long" -> Crop(name, TRUE, Days(201, t3, Const(t3, Absent), Absent), <<>>)
          [] OTHER -> Crop(name, TRUE, Days(301, <<Num(12)>>, <<Absent>>, Absent), T :> Num(10))

CompanionKinds == {"no weather", "no days", "too long", "ordinary"}

CompanionNames == <<"B", "C", "D">>

\* Batches: a main crop with up to MaxCompanions companions before or after it
Batches ==
    LET t2 == <<Num(10), Num(12)>>
        mains == { Crop("A", TRUE, Days(101, t2, Const(t2, Absent), Absent), T :> Num(20)),
                   Crop("A", TRUE, Days(101, <<Num(10)>>, <<Absent>>, Absent), <<>>),
                   Crop("A", FALSE, <<>>, <<>>) }
        comps == { [j \in DOMAIN ks |-> Companion(CompanionNames[j], ks[j])] :
                     ks \in SeqsUpTo(CompanionKinds, MaxCompanions) }
        t4 == <<Num(10), Num(12), Num(10), Num(12)>>
        forecasts == { Days(1, t4, Const(t4, Absent), Absent),
                       Days(1, <<Num(12)>>, <<Absent>>, Absent),
                       <<>> }
        configs == { [STEP_SIZE |-> 1],
                     [STEP_SIZE |-> 1, REQUIRED_FIELDS |-> <<T>>],
                     [STEP_SIZE |-> 3, REQUIRED_FIELDS |-> <<T>>] }
    IN  { Input(b, f, cfg) :
            b \in UNION { { <<m>> \o cs, cs \o <<m>> } : m \in mains, cs \in comps },
            f \in forecasts, cfg \in configs }

\* Invalid dates: one day of a four-day forecast in date order has a date
\* that does not parse; a crop of one or two days, alone or before an
\* ordinary crop
InvalidDates ==
    LET t2 == <<Num(10), Num(12)>>
        t4 == <<Num(10), Num(12), Num(10), Num(12)>>
        whole == Days(1, t4, Const(t4, Absent), Absent)
        mains == { Crop("A", TRUE, Days(101, t2, Const(t2, Absent), Absent), T :> Num(20)),
                   Crop("A", TRUE, Days(101, <<Num(10)>>, <<Absent>>, Absent), <<>>) }
        configs == { [STEP_SIZE |-> 1, REQUIRED_FIELDS |-> <<T>>],
                     [STEP_SIZE |-> 2, REQUIRED_FIELDS |-> <<T>>],
                     [STEP_SIZE |-> 1] }
    IN  { Input(b, [whole EXCEPT ![p].date = InvalidDate], cfg) :
            b \in UNION { { <<m>>, <<m, Companion("B", "ordinary")>> } : m \in mains },
            p \in DOMAIN whole, cfg \in configs }

Inputs == ForecastVariety \cup CropVariety \cup CloseScores \cup Batches \cup InvalidDates

\* ------------------------------------------------------------------------
\* runCropMatching: entry
\* ------------------------------------------------------------------------

NoStats == [total_windows |-> 0, insufficient_data |-> 0, valid_windows |-> 0]

\* logData as runCropMatching creates it
NewLogData ==
    [summary |-> [crops_processed |-> 0,
                  crops_disqualified_duration |-> 0,
                  crops_no_valid_windows |-> 0,
                  crops_successful |-> 0,
                  total_windows_processed |-> 0,
                  windows_insufficient_data |-> 0,
                  windows_successful |-> 0],
     crop_logs |-> <<>>,
     errors |-> <<>>]

\* the locals of runCropMatching before processCrops has touched them
MatchingLocals(at) ==
    /\ logData = NewLogData
    /\ forecastDf = <<>>
    /\ results = <<>>
    /\ pc = at
    /\ cropIdx = 0
    /\ cropDf = <<>>
    /\ kValues = <<>>
    /\ variableWeights = [den |-> 0, num |-> <<>>]
    /\ cropWindows = <<>>
    /\ i = 0
    /\ scoreCalls = <<>>

\* no call of computeCropKValues is under way
CalibrationIdle ==
    /\ callerCrops = <<>>
    /\ updatedCrops = <<>>
    /\ baseImportance = <<>>
    /\ logs = [errors |-> <<>>]
    /\ calibrationLogs = <<>>
    /\ calPc = "idle"
    /\ calIdx = 0

Init ==
    /\ \E input \in Inputs :
          /\ crops = input.crops
          /\ forecastData = input.forecastData
          /\ clientConfig = input.clientConfig
          /\ CONFIG = MergeConfig(input.clientConfig)
    /\ MatchingLocals("start")
    /\ CalibrationIdle

\* logError(message, cropName): the entry pushed to logData.errors
ErrorEntry(message, cropName) == [message |-> message, crop |-> cropName]

\* processCrops, before the loop: parse the dates and sort the forecast
ParseForecast ==
    /\ pc = "start"
    /\ forecastDf' = SortByDate(forecastData)
    /\ pc' = "crops"
    /\ UNCHANGED << inputVars, calVars, logData, results, cropIdx, cropDf, kValues,
                    variableWeights, cropWindows, i, scoreCalls >>

\* ------------------------------------------------------------------------
\* processCrops: the head of one iteration of the crop loop
\* ------------------------------------------------------------------------

crop == crops[cropIdx + 1]

cropName == crop.name

duration == Len(cropDf)

NewCropLog(dur) ==
    [windows |-> <<>>, warnings |-> <<>>, duration_days |-> dur,
     k_values_used |-> <<>>, normalized_weights |-> [den |-> 0, num |-> <<>>],
     windows_stats |-> NoStats, top_windows |-> <<>>]

\* the catch of the crop loop: logError, and the warning when the crop has a log
CatchCropMutSilent(log) == log

CatchCropMutAnonymous(log) ==
    [log EXCEPT !.errors = Append(@, ErrorEntry(<<"Error processing crop", cropName>>, ""))]

CatchCrop(log) ==
    LET errorMsg == <<"Error processing crop", cropName>>
        logged == [log EXCEPT !.errors = Append(@, ErrorEntry(errorMsg, cropName))]
    IN  IF cropName \in DOMAIN log.crop_logs
        THEN [logged EXCEPT !.crop_logs[cropName].warnings = Append(@, errorMsg)]
        ELSE logged

\* duration > forecastDf.length
DurationExceedsMutOffByOne(dur, len) == dur > len + 1

DurationExceeds(dur, len) == dur > len

\* crop.daily_weather.map throws: the crop has no daily_weather
CropThrows ==
    /\ pc = "crops"
    /\ cropIdx < Len(crops)
    /\ ~crop.has_weather
    /\ logData' = CatchCrop([logData EXCEPT !.summary.crops_processed = @ + 1])
    /\ cropIdx' = cropIdx + 1
    /\ UNCHANGED << inputVars, calVars, forecastDf, results, pc, cropDf, kValues,
                    variableWeights, cropWindows, i, scoreCalls >>

\* duration > forecastDf.length: the crop is disqualified
CropDisqualified ==
    /\ pc = "crops"
    /\ cropIdx < Len(crops)
    /\ crop.has_weather
    /\ DurationExceeds(Len(crop.daily_weather), Len(forecastDf))
    /\ cropDf' = SortByDate(crop.daily_weather)
    /\ logData' =
         LET entered == [logData EXCEPT !.summary.crops_processed = @ + 1]
             withLog == IF cropName \in DOMAIN entered.crop_logs THEN entered
                        ELSE [entered EXCEPT !.crop_logs =
                                 (cropName :> NewCropLog(Len(crop.daily_weather))) @@ @]
         IN  [withLog EXCEPT
                !.crop_logs[cropName].warnings = Append(@, <<"Disqualified: duration exceeds forecast length">>),
                !.summary.crops_disqualified_duration = @ + 1]
    /\ cropIdx' = cropIdx + 1
    /\ UNCHANGED << inputVars, calVars, forecastDf, results, pc, kValues,
                    variableWeights, cropWindows, i, scoreCalls >>

\* the crop fits: its k values, weights and window statistics are set up
CropSetup ==
    /\ pc = "crops"
    /\ cropIdx < Len(crops)
    /\ crop.has_weather
    /\ ~DurationExceeds(Len(crop.daily_weather), Len(forecastDf))
    /\ cropDf' = SortByDate(crop.daily_weather)
    /\ kValues' = crop.k_values
    /\ variableWeights' = DeriveWeights(crop.k_values, CONFIG)
    /\ logData' =
         LET entered == [logData EXCEPT !.summary.crops_processed = @ + 1]
             withLog == IF cropName \in DOMAIN entered.crop_logs THEN entered
                        ELSE [entered EXCEPT !.crop_logs =
                                 (cropName :> NewCropLog(Len(crop.daily_weather))) @@ @]
         IN  [withLog EXCEPT
                !.crop_logs[cropName].warnings = @ \o KWarnings(crop.k_values, CONFIG),
                !.crop_logs[cropName].k_values_used = crop.k_values,
                !.crop_logs[cropName].normalized_weights = DeriveWeights(crop.k_values, CONFIG),
                !.crop_logs[cropName].windows_stats = NoStats]
    /\ cropWindows' = <<>>
    /\ i' = 0
    /\ pc' = "windows"
    /\ UNCHANGED << inputVars, calVars, forecastDf, results, cropIdx, scoreCalls >>

\* ------------------------------------------------------------------------
\* processCrops: one iteration of the window loop
\* ------------------------------------------------------------------------

\* Array.prototype.slice(start, end): a negative index counts from the end
slice(s, start, end) ==
    LET from == IF start < 0 THEN Max2(Len(s) + start, 0) ELSE Min2(start, Len(s))
        to == IF end < 0 THEN Max2(Len(s) + end, 0) ELSE Min2(end, Len(s))
    IN  SubSeq(s, from + 1, to)

\* i <= forecastDf.length - duration
InWindowLoopMutStrict == pc = "windows" /\ i < Len(forecastDf) - duration

InWindowLoop == pc = "windows" /\ i <= Len(forecastDf) - duration

\* forecastDf.slice(i, i + duration)
windowDf == slice(forecastDf, i, i + duration)

\* windowDf[0].date.toISOString().split("T")[0]
windowStart == windowDf[1].date

\* the count of valid data points of the window
ValidValues(window, cfg) ==
    Cardinality({ << d, f >> \in (DOMAIN window) \X (DOMAIN cfg.REQUIRED_FIELDS) :
                     IsValidField(window[d], cfg.REQUIRED_FIELDS[f]) })

\* duration * CONFIG.REQUIRED_FIELDS.length
TotalValues(dur, cfg) == dur * Len(cfg.REQUIRED_FIELDS)

\* dataRatio < 1 - CONFIG.MAX_NAN_RATIO, both sides in percent of totalValues
InsufficientDataMutInclusive(window, dur, cfg) ==
    ValidValues(window, cfg) * 100 <= (100 - cfg.MAX_NAN_RATIO) * TotalValues(dur, cfg)

InsufficientData(window, dur, cfg) ==
    ValidValues(window, cfg) * 100 < (100 - cfg.MAX_NAN_RATIO) * TotalValues(dur, cfg)

NewWindowLog == [variables |-> <<>>, warnings |-> <<>>, final_score |-> <<>>]

\* cropLog.windows with the entry of start created when it is missing
WithWindow(windows, start) ==
    IF start \in DOMAIN windows THEN windows ELSE (start :> NewWindowLog) @@ windows

\* both counters of processed windows incremented
CountWindow(log) ==
    [log EXCEPT !.summary.total_windows_processed = @ + 1,
                !.crop_logs[cropName].windows_stats.total_windows = @ + 1]

\* windowDf[0].date.toISOString() throws: windowDf[0] is undefined for a crop
\* without days (TypeError), or its date is invalid (RangeError)
WindowStartThrows == IF windowDf = <<>> THEN TRUE ELSE windowDf[1].date = InvalidDate

\* the most iterations of one window loop that are followed: a loop that
\* makes more of them is not followed further
MaxWindowVisits == MaxForecastLen + 2

WithinVisits == logData.crop_logs[cropName].windows_stats.total_windows < MaxWindowVisits

\* the window start cannot be read: the crop is given up
WindowThrows ==
    /\ InWindowLoop
    /\ WithinVisits
    /\ WindowStartThrows
    /\ logData' = CatchCrop(CountWindow(logData))
    /\ cropIdx' = cropIdx + 1
    /\ pc' = "crops"
    /\ UNCHANGED << inputVars, calVars, forecastDf, results, cropDf, kValues,
                    variableWeights, cropWindows, i, scoreCalls >>

\* too few valid data points: the window is logged and not scored
WindowInsufficient ==
    /\ InWindowLoop
    /\ WithinVisits
    /\ ~WindowStartThrows
    /\ InsufficientData(windowDf, duration, CONFIG)
    /\ logData' =
         [CountWindow(logData) EXCEPT
            !.crop_logs[cropName].windows =
                LET w == WithWindow(@, windowStart)
                IN  [w EXCEPT ![windowStart].warnings = Append(@, <<"Insufficient data">>)],
            !.crop_logs[cropName].windows_stats.insufficient_data = @ + 1,
            !.summary.windows_insufficient_data = @ + 1]
    /\ i' = i + CONFIG.STEP_SIZE
    /\ UNCHANGED << inputVars, calVars, forecastDf, results, pc, cropIdx, cropDf, kValues,
                    variableWeights, cropWindows, scoreCalls >>

\* what the call of computeScore for the current window returns
Scored == computeScore(windowDf, cropDf, kValues, variableWeights, CONFIG)

\* the window log after computeScore has written to it
ScoredWindowLog(old, res) ==
    [variables |-> res.variables @@ old.variables,
     warnings |-> old.warnings \o res.warnings,
     final_score |-> IF res.score = <<>> THEN old.final_score ELSE res.score]

\* the window record pushed to cropWindows
WindowRecord(start, res) ==
    [start |-> start, score |-> Round4(res.score[1]), variable_details |-> res.variables]

\* computeScore returns a score: the window is recorded
WindowScored ==
    /\ InWindowLoop
    /\ WithinVisits
    /\ ~WindowStartThrows
    /\ ~InsufficientData(windowDf, duration, CONFIG)
    /\ Scored.score # <<>>
    /\ scoreCalls' = Append(scoreCalls, [crop |-> cropName, i |-> i])
    /\ logData' =
         [CountWindow(logData) EXCEPT
            !.crop_logs[cropName].windows =
                LET w == WithWindow(@, windowStart)
                IN  [w EXCEPT ![windowStart] = ScoredWindowLog(@, Scored)],
            !.crop_logs[cropName].windows_stats.valid_windows = @ + 1,
            !.summary.windows_successful = @ + 1]
    /\ cropWindows' = Append(cropWindows, WindowRecord(windowStart, Scored))
    /\ i' = i + CONFIG.STEP_SIZE
    /\ UNCHANGED << inputVars, calVars, forecastDf, results, pc, cropIdx, cropDf, kValues,
                    variableWeights >>

\* computeScore returns null: the window is logged and not recorded
WindowNoScore ==
    /\ InWindowLoop
    /\ WithinVisits
    /\ ~WindowStartThrows
    /\ ~InsufficientData(windowDf, duration, CONFIG)
    /\ Scored.score = <<>>
    /\ scoreCalls' = Append(scoreCalls, [crop |-> cropName, i |-> i])
    /\ logData' =
         [CountWindow(logData) EXCEPT
            !.crop_logs[cropName].windows =
                LET w == WithWindow(@, windowStart)
                IN  [w EXCEPT ![windowStart] =
                        [ScoredWindowLog(@, Scored) EXCEPT
                            !.warnings = Append(@, <<"No valid score produced">>)]]]
    /\ i' = i + CONFIG.STEP_SIZE
    /\ UNCHANGED << inputVars, calVars, forecastDf, results, pc, cropIdx, cropDf, kValues,
                    variableWeights, cropWindows >>

\* ------------------------------------------------------------------------
\* processCrops: after the window loop
\* ------------------------------------------------------------------------

\* the windows of the crop, sorted, stored in results
CropSuccessful ==
    /\ pc = "windows"
    /\ ~InWindowLoop
    /\ Len(cropWindows) > 0
    /\ LET sorted == SortByScoreDesc(cropWindows)
       IN  /\ logData' =
                [logData EXCEPT
                   !.summary.crops_successful = @ + 1,
                   !.crop_logs[cropName].top_windows =
                       [j \in DOMAIN Take(sorted, 3) |-> sorted[j].start]]
           /\ results' = Append(results,
                [name |-> cropName, duration_days |-> duration,
                 k_values_used |-> kValues, windows |-> sorted])
    /\ cropIdx' = cropIdx + 1
    /\ pc' = "crops"
    /\ UNCHANGED << inputVars, calVars, forecastDf, cropDf, kValues, variableWeights,
                    cropWindows, i, scoreCalls >>

\* no window of the crop was scored
CropNoValidWindows ==
    /\ pc = "windows"
    /\ ~InWindowLoop
    /\ Len(cropWindows) = 0
    /\ logData' =
         [logData EXCEPT
            !.summary.crops_no_valid_windows = @ + 1,
            !.crop_logs[cropName].warnings = Append(@, <<"No valid windows found">>)]
    /\ cropIdx' = cropIdx + 1
    /\ pc' = "crops"
    /\ UNCHANGED << inputVars, calVars, forecastDf, results, cropDf, kValues, variableWeights,
                    cropWindows, i, scoreCalls >>

\* the crop loop is over: runCropMatching returns results and logs
Return ==
    /\ pc = "crops"
    /\ cropIdx = Len(crops)
    /\ pc' = "done"
    /\ UNCHANGED << inputVars, calVars, logData, forecastDf, results, cropIdx, cropDf, kValues,
                    variableWeights, cropWindows, i, scoreCalls >>

Next ==
    \/ ParseForecast
    \/ CropThrows
    \/ CropDisqualified
    \/ CropSetup
    \/ WindowThrows
    \/ WindowInsufficient
    \/ WindowScored
    \/ WindowNoScore
    \/ CropSuccessful
    \/ CropNoValidWindows
    \/ Return

Spec == Init /\ [][Next]_vars

\* the largest STEP_SIZE, and the largest negated STEP_SIZE, of StepInputs
MaxStep == 2

\* Step sizes: STEP_SIZE is any integer from -MaxStep to MaxStep, T is the
\* only required field; a crop of one or two days, or one with a null
\* history, alone or with a crop that throws or is disqualified
StepInputs ==
    LET t2 == <<Num(10), Num(12)>>
        mains == { Crop("A", TRUE, Days(101, t2, Const(t2, Absent), Absent), T :> Num(20)),
                   Crop("A", TRUE, Days(101, <<Num(10)>>, <<Absent>>, Absent), <<>>),
                   Crop("A", TRUE, Days(101, <<Null>>, <<Absent>>, Absent), T :> Num(20)) }
        comps == { <<>> } \cup { << Companion("B", kind) >> : kind \in CompanionKinds \ {"ordinary"} }
        t4 == <<Num(10), Num(12), Num(10), Num(12)>>
        gap == <<Num(10), Null, Num(12), Num(10)>>
        forecasts == { Days(1, t4, Const(t4, Absent), Absent), Days(1, gap, Const(gap, Absent), Absent) }
    IN  { Input(b, f, [STEP_SIZE |-> step, REQUIRED_FIELDS |-> <<T>>]) :
            b \in UNION { { <<m>> \o cs, cs \o <<m>> } : m \in mains, cs \in comps },
            f \in forecasts, step \in (0 - MaxStep)..MaxStep }

StepInit ==
    /\ \E input \in StepInputs :
          /\ crops = input.crops
          /\ forecastData = input.forecastData
          /\ clientConfig = input.clientConfig
          /\ CONFIG = MergeConfig(input.clientConfig)
    /\ MatchingLocals("start")
    /\ CalibrationIdle

StepSpec == StepInit /\ [][Next]_vars

\* ------------------------------------------------------------------------
\* computeCropKValues (k-calibration). Weather values, ranges and
\* importances are in tenths; a quotient is kept exact as numerator and
\* denominator.
\* ------------------------------------------------------------------------

\* Math.min(...validValues), Math.max(...validValues)
MinOf(S) == CHOOSE x \in S : \A y \in S : x <= y

MaxOf(S) == CHOOSE x \in S : \A y \in S : x >= y

\* calculateRange: max - min of the valid values, 1.0 when there is none or
\* when max - min is 0
calculateRangeMutZero(values) ==
    LET validValues == { values[j].v : j \in { n \in DOMAIN values : IsValidVal(values[n]) } }
    IN  IF Len(values) = 0 \/ validValues = {} THEN 10
        ELSE MaxOf(validValues) - MinOf(validValues)

calculateRange(values) ==
    LET validValues == { values[j].v : j \in { n \in DOMAIN values : IsValidVal(values[n]) } }
    IN  IF Len(values) = 0 \/ validValues = {} THEN 10
        ELSE LET range == MaxOf(validValues) - MinOf(validValues)
             IN  IF range = 0 THEN 10 ELSE range

\* the keys of baseImportance
ImportanceKeys(importance) == { importance[j].variable : j \in DOMAIN importance }

\* crop.daily_weather.some((day) => variable in day)
InSomeDay(weather, variable) == \E d \in DOMAIN weather : HasField(weather[d], variable)

\* crop.daily_weather.map((day) => day[variable])
ValuesOf(weather, variable) == [d \in DOMAIN weather |-> GetVal(weather[d], variable)]

\* ranges before normalisation: one entry for every variable of
\* baseImportance that some day has
Ranges(weather, importance) ==
    [v \in { u \in ImportanceKeys(importance) : InSomeDay(weather, u) } |->
        calculateRange(ValuesOf(weather, v))]

\* Math.max(...Object.values(ranges), 1.0)
MaxRange(ranges) == MaxOf({ ranges[v] : v \in DOMAIN ranges } \cup {10})

\* Math.max(0.1, 1.0 - 0.5 * (range / maxRange))
VariationFactor(range, maxRange) ==
    IF 10 * (2 * maxRange - range) < 2 * maxRange
    THEN [num |-> 1, den |-> 10]
    ELSE [num |-> 2 * maxRange - range, den |-> 2 * maxRange]

NoQuotient == [num |-> 0, den |-> 0]

\* baseImportance[variable] || null, as a k value
ImportanceOrNull(imp) ==
    IF imp.kind = "num" /\ imp.v # 0
    THEN [kind |-> "num", num |-> imp.v, den |-> 1]
    ELSE [kind |-> "null", num |-> 0, den |-> 1]

\* the calibration log entry of one variable of baseImportance; its k_value
\* is what kDict holds for the variable
CalibrationEntry(cropRec, importance, j) ==
    LET variable == importance[j].variable
        imp == importance[j].importance
        ranges == Ranges(cropRec.daily_weather, importance)
        maxRange == MaxRange(ranges)
    IN  IF InSomeDay(cropRec.daily_weather, variable) /\ variable \in DOMAIN ranges
        THEN LET variationFactor == VariationFactor(ranges[variable], maxRange)
             IN  [crop |-> cropRec.name,
                  variable |-> variable,
                  range |-> [num |-> ranges[variable], den |-> maxRange],
                  importance |-> imp,
                  variation_factor |-> variationFactor,
                  k_value |-> [kind |-> "num",
                               num |-> imp.v * variationFactor.num,
                               den |-> variationFactor.den],
                  note |-> <<>>]
        ELSE [crop |-> cropRec.name,
              variable |-> variable,
              range |-> NoQuotient,
              importance |-> imp,
              variation_factor |-> NoQuotient,
              k_value |-> ImportanceOrNull(imp),
              note |-> <<"Variable missing in data">>]

\* the entries pushed for one crop, in the key order of baseImportance
CropCalibration(cropRec, importance) ==
    [j \in DOMAIN importance |-> CalibrationEntry(cropRec, importance, j)]

\* kDict of one crop
KDict(cropRec, importance) ==
    [v \in ImportanceKeys(importance) |->
        LET j == CHOOSE n \in DOMAIN importance : importance[n].variable = v
        IN  CalibrationEntry(cropRec, importance, j).k_value]

\* !crop.daily_weather || crop.daily_weather.length === 0
NoDailyWeatherMutNullOnly(cropRec) == ~cropRec.has_weather

NoDailyWeather(cropRec) == ~cropRec.has_weather \/ Len(cropRec.daily_weather) = 0

\* the crop has no daily weather: an error is pushed, the crop is skipped
CalSkipCrop ==
    /\ calPc = "crops"
    /\ calIdx < Len(updatedCrops)
    /\ NoDailyWeather(updatedCrops[calIdx + 1])
    /\ logs' = [logs EXCEPT !.errors =
                   Append(@, [crop |-> updatedCrops[calIdx + 1].name,
                              message |-> <<"Missing daily weather data for K-value calibration">>])]
    /\ calIdx' = calIdx + 1
    /\ UNCHANGED << callerCrops, updatedCrops, baseImportance, calibrationLogs, calPc >>
    /\ UNCHANGED << inputVars, logData, forecastDf, results, pc, cropIdx, cropDf, kValues,
                    variableWeights, cropWindows, i, scoreCalls >>

\* the crop is calibrated: its entries are logged and its k_values are set
CalCalibrateCrop ==
    /\ calPc = "crops"
    /\ calIdx < Len(updatedCrops)
    /\ ~NoDailyWeather(updatedCrops[calIdx + 1])
    /\ calibrationLogs' =
          calibrationLogs \o CropCalibration(updatedCrops[calIdx + 1], baseImportance)
    /\ updatedCrops' =
          [updatedCrops EXCEPT ![calIdx + 1].k_values = KDict(updatedCrops[calIdx + 1], baseImportance)]
    /\ calIdx' = calIdx + 1
    /\ UNCHANGED << callerCrops, baseImportance, logs, calPc >>
    /\ UNCHANGED << inputVars, logData, forecastDf, results, pc, cropIdx, cropDf, kValues,
                    variableWeights, cropWindows, i, scoreCalls >>

\* return { crops: updatedCrops, logs: calibrationLogs }
CalReturn ==
    /\ calPc = "crops"
    /\ calIdx = Len(updatedCrops)
    /\ calPc' = "done"
    /\ UNCHANGED << callerCrops, updatedCrops, baseImportance, logs, calibrationLogs, calIdx >>
    /\ UNCHANGED << inputVars, logData, forecastDf, results, pc, cropIdx, cropDf, kValues,
                    variableWeights, cropWindows, i, scoreCalls >>

Importance(variable, imp) == [variable |-> variable, importance |-> imp]

\* BASE_IMPORTANCE of the calibration handler, in tenths
BASE_IMPORTANCE ==
    << Importance("temperature_2m_max", Num(50)),
       Importance("temperature_2m_min", Num(45)),
       Importance("soil_moisture_0_to_10cm_mean", Num(40)),
       Importance("precipitation_sum", Num(30)),
       Importance("relative_humidity_2m_mean", Num(25)),
       Importance("wind_speed_10m_mean", Num(15)) >>

\* the histories of the calibration inputs: T over {1.0, 1.3, 3.5, null}, P
\* constant, absent, or rising by 3.0 a day
CalWeathers ==
    UNION { { Days(101, ts, Const(ts, Num(5)), Absent),
              Days(101, ts, Const(ts, Absent), Absent),
              Days(101, ts, [j \in DOMAIN ts |-> Num(30 * j)], Num(7)) } :
            ts \in SeqsUpTo({Num(10), Num(13), Num(35), Null}, MaxDuration) }

CalCrops ==
    { Crop("A", TRUE, w, <<>>) : w \in CalWeathers } \cup { Crop("A", FALSE, <<>>, <<>>) }

CalImportances ==
    { BASE_IMPORTANCE,
      << Importance(T, Num(20)) >>,
      << Importance(P, Num(30)), Importance(T, Num(0)) >> }

\* one crop with every importance; the skipped and the constant crop before
\* or after a second crop
CalInputs ==
    { [crops |-> << c >>, baseImportance |-> b] : c \in CalCrops, b \in CalImportances }
    \cup { [crops |-> << c, Crop("B", TRUE, Days(101, <<Num(10), Num(10)>>, <<Num(5), Num(30)>>, Absent), <<>>) >>,
            baseImportance |-> BASE_IMPORTANCE] : c \in CalCrops }
    \cup { [crops |-> << Crop("B", FALSE, <<>>, <<>>), c >>,
            baseImportance |-> << Importance(T, Num(20)), Importance(P, Num(30)) >>] : c \in CalCrops }

\* the shared logs object at the call: empty, or holding an earlier error
CalLogs ==
    { [errors |-> <<>>],
      [errors |-> << [crop |-> "Z", message |-> <<"Failed to fetch weather data">>] >>] }

CalInit ==
    /\ crops = <<>>
    /\ forecastData = <<>>
    /\ clientConfig = <<>>
    /\ CONFIG = DEFAULT_CONFIG
    /\ MatchingLocals("idle")
    /\ \E input \in CalInputs :
          /\ callerCrops = input.crops
          /\ updatedCrops = input.crops
          /\ baseImportance = input.baseImportance
    /\ logs \in CalLogs
    /\ calibrationLogs = <<>>
    /\ calPc = "crops"
    /\ calIdx = 0

CalNext ==
    \/ CalSkipCrop
    \/ CalCalibrateCrop
    \/ CalReturn

CalSpec == CalInit /\ [][CalNext]_vars

\* ------------------------------------------------------------------------
\* Properties
\* ------------------------------------------------------------------------

\* the sum of f[x] over the domain of the function f
RECURSIVE SumOver(_)
SumOver(f) ==
    IF DOMAIN f = {} THEN 0
    ELSE LET x == CHOOSE y \in DOMAIN f : TRUE
         IN  f[x] + SumOver([y \in DOMAIN f \ {x} |-> f[y]])

\* the crops whose iteration of the crop loop is over
Finished == 1..cropIdx

ResultNames == {results[r].name : r \in DOMAIN results}

\* a crop with more daily records than the forecast has
TooLong(c) == crops[c].has_weather /\ Len(crops[c].daily_weather) > Len(forecastData)

ValidInWindow ==
    Cardinality({ << d, f >> \in (i + 1 .. i + duration) \X (DOMAIN CONFIG.REQUIRED_FIELDS) :
        LET field == CONFIG.REQUIRED_FIELDS[f]
        IN  /\ field \in DOMAIN forecastDf[d].vals
            /\ forecastDf[d].vals[field].kind = "num" })

\* valid / total < 1 - MAX_NAN_RATIO for the current window
BelowThreshold ==
    ValidInWindow * 100 < (100 - CONFIG.MAX_NAN_RATIO) * duration * Len(CONFIG.REQUIRED_FIELDS)

WindowLogs ==
    UNION { { logData.crop_logs[n].windows[w] : w \in DOMAIN logData.crop_logs[n].windows } :
              n \in DOMAIN logData.crop_logs }

\* the sum of the weights of the variables that produced a score
WeightsUsed(w) == SumOver([v \in DOMAIN w.variables |-> w.variables[v].weight])

\* the sum of variable_score x weight over the variables that produced a score
WeightedSum(w) ==
    SumOver([v \in DOMAIN w.variables |-> w.variables[v].score * w.variables[v].weight])

\* C3: in every window log, the final score is null when no variable produced
\* a score; otherwise it is the sum of variable_score x weight divided by the
\* sum of the weights of the variables that produced a score, and lies in
\* [0, 1]; every recorded window carries that score, rounded, also in [0, 1].
C3_WeightedAverage ==
    /\ \A w \in WindowLogs :
         IF DOMAIN w.variables = {} \/ WeightsUsed(w) = 0
         THEN w.final_score = <<>>
         ELSE /\ w.final_score = << WeightedSum(w) \div WeightsUsed(w) >>
              /\ w.final_score[1] \in 0..1000000
    /\ \A r \in DOMAIN results : \A j \in DOMAIN results[r].windows :
         LET rec == results[r].windows[j]
             w == logData.crop_logs[results[r].name].windows[rec.start]
         IN  /\ rec.score \in 0..10000
             /\ w.final_score # <<>>
             /\ rec.score * 100 - w.final_score[1] \in -50..50

\* C3 witness: a recorded window in which a required variable produced no
\* score, so that the weights used sum to less than the weights derived
C3_Witness ==
    \E r \in DOMAIN results : \E j \in DOMAIN results[r].windows :
        LET log == logData.crop_logs[results[r].name]
            w == log.windows[results[r].windows[j].start]
        IN  /\ Cardinality(DOMAIN w.variables) >= 1
            /\ Cardinality(DOMAIN w.variables) < Len(CONFIG.REQUIRED_FIELDS)
            /\ WeightsUsed(w) < log.normalized_weights.den
            /\ WeightsUsed(w) # Cardinality(DOMAIN w.variables)
            /\ w.final_score[1] > 500000

\* C7: the windows of every crop in results are in non-increasing order of
\* reported score, two windows of equal score are in the order of their start
\* dates, and top_windows is the start dates of the first three.
C7_Ranking ==
    \A r \in DOMAIN results :
        LET ws == results[r].windows
        IN  /\ \A a, b \in DOMAIN ws : a < b =>
                 /\ ws[a].score >= ws[b].score
                 /\ ws[a].score = ws[b].score => ws[a].start < ws[b].start
            /\ logData.crop_logs[results[r].name].top_windows =
                 [j \in 1..Min2(3, Len(ws)) |-> ws[j].start]

\* C7 witness: a crop with four windows, two of which tie after rounding
\* although the later one has the higher unrounded score, and one of which
\* scores strictly lower and was enumerated first
C7_Witness ==
    \E r \in DOMAIN results :
        LET ws == results[r].windows
            log == logData.crop_logs[results[r].name]
        IN  /\ Len(ws) >= 4
            /\ \E a, b \in DOMAIN ws :
                 /\ a < b
                 /\ ws[a].score = ws[b].score
                 /\ log.windows[ws[a].start].final_score[1] < log.windows[ws[b].start].final_score[1]
            /\ \E a, b \in DOMAIN ws : a < b /\ ws[a].score > ws[b].score /\ ws[a].start > ws[b].start

\* the index of the crop named n
CropIndex(n) == CHOOSE c \in DOMAIN crops : crops[c].name = n

\* the position in the sorted forecast of the day dated start
ForecastIndex(start) == CHOOSE p \in DOMAIN forecastDf : forecastDf[p].date = start

\* the forecast values of T from the day dated start equal the crop's
\* date-sorted history day by day
ExactMatch(n, start) ==
    LET history == SortByDate(crops[CropIndex(n)].daily_weather)
        p == ForecastIndex(start)
    IN  \A j \in DOMAIN history :
            /\ IsValidField(history[j], T)
            /\ IsValidField(forecastDf[p + j - 1], T)
            /\ forecastDf[p + j - 1].vals[T].v = history[j].vals[T].v

\* |forecast - history| of T on the one day of a one-day window
Deviation(n, start) ==
    LET history == SortByDate(crops[CropIndex(n)].daily_weather)
    IN  Abs(forecastDf[ForecastIndex(start)].vals[T].v - history[1].vals[T].v)

\* C4 (the claim as stated): with T the only required field and k > 0, a
\* one-day window with the smaller deviation from the history has a score at
\* least as close to 1, and a window that matches the history exactly scores
\* at least as high as every other window of the crop.
C4_CloserScoresHigher ==
    CONFIG.REQUIRED_FIELDS = <<T>> =>
      \A r \in DOMAIN results :
        LET ws == results[r].windows
            log == logData.crop_logs[results[r].name]
        IN  /\ results[r].duration_days = 1 =>
                 \A a, b \in DOMAIN ws :
                     Deviation(results[r].name, ws[a].start) <= Deviation(results[r].name, ws[b].start)
                     => log.windows[ws[a].start].final_score[1] >= log.windows[ws[b].start].final_score[1]
            /\ \A a, b \in DOMAIN ws :
                 ExactMatch(results[r].name, ws[a].start) => ws[a].score >= ws[b].score

\* the crop and the forecast of the end-to-end scenario
GoldenCrops ==
    << Crop("A", TRUE, Days(101, <<Num(10), Num(12)>>, <<Absent, Absent>>, Absent),
            T :> Num(20)) >>

GoldenForecast ==
    Days(1, <<Num(10), Num(12), Num(10), Num(12)>>, <<Absent, Absent, Absent, Absent>>, Absent)

IsGolden == crops = GoldenCrops /\ forecastData = GoldenForecast

\* the crop has a recorded window dated start whose reported score is 0.5
\* and whose only variable had both days valid and scored exactly 0.5
ScoresHalf(start) ==
    \E r \in DOMAIN results : \E j \in DOMAIN results[r].windows :
        LET rec == results[r].windows[j]
        IN  /\ results[r].name = "A"
            /\ rec.start = start
            /\ rec.score = 5000
            /\ DOMAIN rec.variable_details = {T}
            /\ rec.variable_details[T].valid_points = 2
            /\ rec.variable_details[T].score = 500000

\* C6 (the claim as stated): in the scenario with a configuration that
\* supplies only STEP_SIZE = 1, the windows at offsets 0 and 2 are exact
\* matches and are recorded with score exactly 0.5.
C6_GoldenWithStepOnly ==
    (pc = "done" /\ IsGolden /\ DOMAIN clientConfig = {"STEP_SIZE"} /\ CONFIG.STEP_SIZE = 1) =>
        /\ ExactMatch("A", 1) /\ ScoresHalf(1)
        /\ ExactMatch("A", 3) /\ ScoresHalf(3)

\* C6 (amended): in the scenario with a configuration that supplies
\* STEP_SIZE = 1 and REQUIRED_FIELDS = [temperature_2m_max], the windows at
\* offsets 0 and 2 are exact matches and are recorded with score exactly 0.5;
\* with STEP_SIZE = 1 alone the six default required fields make every window
\* insufficient: the three windows are rejected, none is scored and the crop
\* has no result.
C6_GoldenScenario ==
    (pc = "done" /\ IsGolden /\ CONFIG.STEP_SIZE = 1) =>
        /\ (DOMAIN clientConfig = {"STEP_SIZE", "REQUIRED_FIELDS"} /\ CONFIG.REQUIRED_FIELDS = <<T>>) =>
              /\ ExactMatch("A", 1) /\ ScoresHalf(1)
              /\ ExactMatch("A", 3) /\ ScoresHalf(3)
              /\ ~ExactMatch("A", 2)
        /\ DOMAIN clientConfig = {"STEP_SIZE"} =>
              /\ results = <<>>
              /\ scoreCalls = <<>>
              /\ logData.summary.total_windows_processed = 3
              /\ logData.summary.windows_insufficient_data = 3
              /\ logData.summary.crops_no_valid_windows = 1

\* C6 witness: the scenario has run with both required settings and recorded
\* its three windows
C6_Witness ==
    /\ pc = "done"
    /\ IsGolden
    /\ CONFIG.STEP_SIZE = 1
    /\ CONFIG.REQUIRED_FIELDS = <<T>>
    /\ Len(results) = 1
    /\ Len(results[1].windows) = 3

\* a crop whose processing throws: it has no daily_weather, or no days, or
\* one of its windows starts on a day with an invalid date
Throwing(c) ==
    \/ ~crops[c].has_weather
    \/ Len(crops[c].daily_weather) = 0
    \/ \E j \in 0..(Len(forecastDf) - Len(crops[c].daily_weather)) :
          /\ j % CONFIG.STEP_SIZE = 0
          /\ forecastDf[j + 1].date = InvalidDate

\* the window records of a crop processed on its own, from loop index j on
RECURSIVE WindowsAlone(_, _, _, _)
WindowsAlone(history, k, weights, j) ==
    IF j > Len(forecastDf) - Len(history) THEN <<>>
    ELSE LET window == SubSeq(forecastDf, j + 1, j + Len(history))
             res == computeScore(window, history, k, weights, CONFIG)
         IN  (IF InsufficientData(window, Len(history), CONFIG) \/ res.score = <<>> THEN <<>>
              ELSE << WindowRecord(window[1].date, res) >>)
             \o WindowsAlone(history, k, weights, j + CONFIG.STEP_SIZE)

\* the results of a batch that holds the crop c alone
ResultAlone(c) ==
    LET history == SortByDate(crops[c].daily_weather)
        ws == WindowsAlone(history, crops[c].k_values,
                           DeriveWeights(crops[c].k_values, CONFIG), 0)
    IN  IF Len(history) > Len(forecastDf) \/ ws = <<>> THEN <<>>
        ELSE << [name |-> crops[c].name, duration_days |-> Len(history),
                 k_values_used |-> crops[c].k_values, windows |-> SortByScoreDesc(ws)] >>

\* the results of the batch without its throwing crops, from crop c on
RECURSIVE ResultsWithoutThrowing(_)
ResultsWithoutThrowing(c) ==
    IF c > Len(crops) THEN <<>>
    ELSE (IF Throwing(c) THEN <<>> ELSE ResultAlone(c)) \o ResultsWithoutThrowing(c + 1)

\* C8: a step that appends to logs.errors names the crop at hand, leaves
\* results alone and goes on with the next crop of the loop; when the run has
\* returned, every throwing crop is absent from results and named by an entry
\* of logs.errors, and results is what the batch without the throwing crops
\* yields, crop by crop.
C8_FailureIsolated ==
    /\ [][Len(logData'.errors) > Len(logData.errors) =>
            /\ logData'.errors =
                  Append(logData.errors,
                         ErrorEntry(<<"Error processing crop", cropName>>, cropName))
            /\ results' = results
            /\ pc' = "crops"
            /\ cropIdx' = cropIdx + 1]_vars
    /\ [](pc = "done" =>
           /\ \A c \in DOMAIN crops : Throwing(c) =>
                 /\ crops[c].name \notin ResultNames
                 /\ \E e \in DOMAIN logData.errors :
                       /\ logData.errors[e].crop = crops[c].name
                       /\ logData.errors[e].message = <<"Error processing crop", crops[c].name>>
           /\ results = ResultsWithoutThrowing(1))

\* C8 witness: a returned run in which a crop threw before a crop that has a
\* result
C8_Witness ==
    /\ pc = "done"
    /\ Len(crops) >= 2
    /\ Throwing(1)
    /\ Len(results) >= 1
    /\ Len(logData.errors) >= 1

\* the crops whose weights have been derived
SetUp ==
    { c \in DOMAIN crops :
        /\ c <= cropIdx + (IF pc = "windows" THEN 1 ELSE 0)
        /\ crops[c].has_weather
        /\ ~TooLong(c) }

\* the required fields for which the crop c has a k value that is not null
PresentK(c) ==
    { f \in Range(CONFIG.REQUIRED_FIELDS) :
        f \in DOMAIN crops[c].k_values /\ crops[c].k_values[f].kind = "num" }

\* the sum of the present k values of the crop c
PresentKSum(c) == SumOver([f \in PresentK(c) |-> crops[c].k_values[f].v])

DerivedWeights(c) == logData.crop_logs[crops[c].name].normalized_weights

\* C9 (the claim as stated): for a crop with k values, the derived weight of
\* every required field with a k value is k divided by the sum of the present
\* k values, and with a k value for every required field the weights sum to 1.
C9_WeightsNormalized ==
    \A c \in SetUp : PresentK(c) # {} =>
        LET w == DerivedWeights(c)
        IN  /\ DOMAIN w.num = PresentK(c)
            /\ \A f \in PresentK(c) : w.num[f] * PresentKSum(c) = crops[c].k_values[f].v * w.den
            /\ PresentK(c) = Range(CONFIG.REQUIRED_FIELDS) => SumOver(w.num) = w.den

\* C9 (amended): the same, for a crop whose present k values do not sum to
\* zero; when they sum to zero every derived weight is 0.
C9_WeightsNormalizedNonZero ==
    \A c \in SetUp : PresentK(c) # {} =>
        LET w == DerivedWeights(c)
        IN  /\ DOMAIN w.num = PresentK(c)
            /\ w.den > 0
            /\ PresentKSum(c) # 0 =>
                 /\ \A f \in PresentK(c) :
                       w.num[f] * PresentKSum(c) = crops[c].k_values[f].v * w.den
                 /\ PresentK(c) = Range(CONFIG.REQUIRED_FIELDS) => SumOver(w.num) = w.den
            /\ PresentKSum(c) = 0 => \A f \in PresentK(c) : w.num[f] = 0

\* C9 witness: a crop with different k values for all of two or more
\* required fields, and a crop with a k value for only some required fields
C9_Witness ==
    \E c \in SetUp :
        /\ PresentK(c) = Range(CONFIG.REQUIRED_FIELDS)
        /\ Len(CONFIG.REQUIRED_FIELDS) >= 2
        /\ DerivedWeights(c).num[T] > DerivedWeights(c).num[P]
        /\ DerivedWeights(c).num[P] > 0

\* a window of the crop named n produced a score that is not null
HasScoredWindow(n) ==
    /\ n \in DOMAIN logData.crop_logs
    /\ \E w \in DOMAIN logData.crop_logs[n].windows :
          logData.crop_logs[n].windows[w].final_score # <<>>

HasWarning(n, warning) ==
    /\ n \in DOMAIN logData.crop_logs
    /\ \E j \in DOMAIN logData.crop_logs[n].warnings : logData.crop_logs[n].warnings[j] = warning

\* C10 (the claim as stated): when the run has returned, a crop is in results
\* exactly when one of its windows produced a score; every crop that was not
\* disqualified by duration and has no scored window is counted in
\* crops_no_valid_windows and has the warning 'No valid windows found'; no
\* crop is both disqualified and without valid windows.
C10_ResultsIffScored ==
    pc = "done" =>
      /\ \A c \in DOMAIN crops : crops[c].name \in ResultNames <=> HasScoredWindow(crops[c].name)
      /\ logData.summary.crops_no_valid_windows =
           Cardinality({c \in DOMAIN crops : ~TooLong(c) /\ ~HasScoredWindow(crops[c].name)})
      /\ \A c \in DOMAIN crops : (~TooLong(c) /\ ~HasScoredWindow(crops[c].name)) =>
             HasWarning(crops[c].name, <<"No valid windows found">>)
      /\ \A c \in DOMAIN crops :
             ~(/\ HasWarning(crops[c].name, <<"No valid windows found">>)
               /\ HasWarning(crops[c].name, <<"Disqualified: duration exceeds forecast length">>))

\* the crop's daily_weather holds the same valid value of the variable on
\* every day
ConstantIn(cropRec, variable) ==
    /\ Len(cropRec.daily_weather) > 0
    /\ \A d \in DOMAIN cropRec.daily_weather :
          /\ IsValidField(cropRec.daily_weather[d], variable)
          /\ cropRec.daily_weather[d].vals[variable].v = cropRec.daily_weather[1].vals[variable].v

\* the calibrated crop named n
CalCrop(n) == updatedCrops[CHOOSE c \in DOMAIN updatedCrops : updatedCrops[c].name = n]

\* C5 (the claim as stated): for every calibrated crop and every variable of
\* baseImportance whose values in daily_weather are all the same constant,
\* the variation factor is 1.0 and the k value is the base importance.
C5_ConstantKeepsImportance ==
    \A e \in DOMAIN calibrationLogs :
        LET entry == calibrationLogs[e]
        IN  ConstantIn(CalCrop(entry.crop), entry.variable) =>
              /\ entry.variation_factor.num = entry.variation_factor.den
              /\ entry.k_value.num = entry.importance.v * entry.k_value.den
              /\ CalCrop(entry.crop).k_values[entry.variable] = entry.k_value

\* the entries of logs.errors that name the crop n
ErrorsNaming(n) == { e \in DOMAIN logs.errors : logs.errors[e].crop = n }

\* the entries of calibrationLogs of the crop n
EntriesOf(n) == { e \in DOMAIN calibrationLogs : calibrationLogs[e].crop = n }

\* C11: every step of the calibration leaves logs.errors alone or appends
\* one entry to it; when the call has returned, a crop whose daily_weather is
\* null, absent or empty is as the caller passed it, without k_values, has no
\* calibration log entry and is named by exactly one entry of logs.errors;
\* every other crop has a k value for every variable of baseImportance and
\* one log entry per variable; the returned map holds every input crop name,
\* in order.
C11_SkippedCrop ==
    /\ [][\/ logs' = logs
          \/ \E c \in DOMAIN callerCrops :
                logs'.errors =
                   Append(logs.errors,
                          [crop |-> callerCrops[c].name,
                           message |-> <<"Missing daily weather data for K-value calibration">>])]_vars
    /\ [](calPc = "done" =>
           /\ Len(updatedCrops) = Len(callerCrops)
           /\ \A c \in DOMAIN callerCrops :
                 /\ updatedCrops[c].name = callerCrops[c].name
                 /\ (~callerCrops[c].has_weather \/ Len(callerCrops[c].daily_weather) = 0) =>
                       /\ updatedCrops[c] = callerCrops[c]
                       /\ DOMAIN updatedCrops[c].k_values = {}
                       /\ EntriesOf(callerCrops[c].name) = {}
                       /\ Cardinality(ErrorsNaming(callerCrops[c].name)) = 1
                 /\ (callerCrops[c].has_weather /\ Len(callerCrops[c].daily_weather) > 0) =>
                       /\ DOMAIN updatedCrops[c].k_values = ImportanceKeys(baseImportance)
                       /\ Cardinality(EntriesOf(callerCrops[c].name)) = Len(baseImportance)
                       /\ ErrorsNaming(callerCrops[c].name) = {})

\* C11 witness: a returned call that skipped a crop with empty daily_weather
\* and calibrated the crop after it, with an earlier error in the shared logs
C11_Witness ==
    /\ calPc = "done"
    /\ Len(callerCrops) = 2
    /\ callerCrops[1].has_weather
    /\ Len(callerCrops[1].daily_weather) = 0
    /\ DOMAIN updatedCrops[2].k_values # {}
    /\ Len(logs.errors) = 2

\* C12 (the claim as stated): when the run has returned, every processed crop
\* is counted in one outcome counter: crops_processed is the sum of
\* crops_disqualified_duration, crops_no_valid_windows and crops_successful.
C12_SummaryAccounting ==
    pc = "done" =>
        logData.summary.crops_processed =
            logData.summary.crops_disqualified_duration
            + logData.summary.crops_no_valid_windows
            + logData.summary.crops_successful

\* the returned log explains the crop named n: a warning in its crop log, or
\* an entry of logs.errors that names it
Explained(n) ==
    \/ /\ n \in DOMAIN logData.crop_logs
       /\ Len(logData.crop_logs[n].warnings) >= 1
    \/ \E e \in DOMAIN logData.errors : logData.errors[e].crop = n

\* C13: when the run has returned, every input crop that is absent from
\* results has a warning in its crop log or is named by an entry of
\* logs.errors.
C13_EveryExclusionExplained ==
    pc = "done" =>
        \A c \in DOMAIN crops : crops[c].name \notin ResultNames => Explained(crops[c].name)

\* C13 witness: a returned run in which a crop is absent from results
\* because a window start threw after a window of the crop had been scored,
\* and an entry of logs.errors names the crop
C13_Witness ==
    /\ pc = "done"
    /\ \E c \in DOMAIN crops :
          /\ crops[c].name \notin ResultNames
          /\ crops[c].name \in DOMAIN logData.crop_logs
          /\ logData.crop_logs[crops[c].name].windows_stats.valid_windows >= 1
          /\ \E e \in DOMAIN logData.errors : logData.errors[e].crop = crops[c].name

\* C20 (the claim as stated): when the run has returned, crops_successful is
\* the number of entries of results and windows_successful is the number of
\* window records over all entries of results.
C20_CountersAgreeWithResults ==
    pc = "done" =>
        /\ logData.summary.crops_successful = Len(results)
        /\ logData.summary.windows_successful =
              SumSeq([r \in DOMAIN results |-> Len(results[r].windows)])

\* C15 (the claim as stated): for every integer STEP_SIZE the window loop of
\* each crop runs finitely many iterations. The loop test and the loop body
\* read only i and values that no iteration changes (forecastDf, cropDf,
\* duration, CONFIG), so an iteration that stays in the loop and leaves i as
\* it was is followed by the same iteration for ever: the loop is finite
\* only if every iteration that stays in the loop moves i.
C15_LoopAdvances == [][(pc = "windows" /\ pc' = "windows") => i' # i]_vars

\* C14 (the claim as stated, for computeCropKValues): when the call has
\* returned, every crop object the caller passed has the fields and values
\* it had at the call. updatedCrops is { ...crops }, a new map of the
\* caller's own crop objects, so the crop objects it holds at return are
\* the caller's objects as the call left them.
C14_CallerRecordsUnchanged == calPc = "done" => updatedCrops = callerCrops

\* the window starts 0, s, 2s, ... below bound
StartsBelow(bound, s) == { j \in 0..(bound - 1) : j % s = 0 }

\* the start dates of the forecast windows at the given starts
StartDates(starts) == { forecastDf[j + 1].date : j \in starts }

\* the forecast is in ascending date order
ForecastAscending ==
    \A a, b \in DOMAIN forecastDf : a < b => ~DateAfter(forecastDf[a], forecastDf[b])

\* the windows of the current crop processed so far are those that start at
\* 0, s, ... below i, the number of them times s is i
LoopEnumerates ==
    pc = "windows" =>
        LET stats == logData.crop_logs[cropName].windows_stats
        IN  /\ i = CONFIG.STEP_SIZE * stats.total_windows
            /\ DOMAIN logData.crop_logs[cropName].windows =
                  StartDates(StartsBelow(i, CONFIG.STEP_SIZE))
            /\ InWindowLoop => windowDf = SubSeq(forecastDf, i + 1, i + duration)

\* C16 (the claim as stated): for STEP_SIZE s >= 1 and a crop of duration
\* d >= 1 that is not disqualified, the windows processed are those that
\* start at 0, s, 2s, ... with start + d <= n, in increasing order, each the
\* slice [start, start + d) of the forecast in ascending date order, and
\* total_windows of the crop is floor((n - d) / s) + 1.
C16_WindowEnumeration ==
    CONFIG.STEP_SIZE >= 1 =>
        /\ pc # "start" => ForecastAscending
        /\ LoopEnumerates
        /\ pc = "done" =>
              \A c \in DOMAIN crops :
                 LET n == Len(forecastDf)
                     d == Len(crops[c].daily_weather)
                 IN  (crops[c].has_weather /\ d >= 1 /\ d <= n) =>
                        LET log == logData.crop_logs[crops[c].name]
                        IN  /\ log.windows_stats.total_windows = ((n - d) \div CONFIG.STEP_SIZE) + 1
                            /\ DOMAIN log.windows = StartDates(StartsBelow(n - d + 1, CONFIG.STEP_SIZE))

\* C16 (amended): as stated when the record at every window start has a
\* valid date; when the record at some window start has an invalid date,
\* the windows processed are those before the first such start, that start
\* is counted in total_windows, and the crop is given up with an error.
C16_WindowsUntilInvalidDate ==
    CONFIG.STEP_SIZE >= 1 =>
        /\ pc # "start" => ForecastAscending
        /\ LoopEnumerates
        /\ pc = "done" =>
              \A c \in DOMAIN crops :
                 LET n == Len(forecastDf)
                     d == Len(crops[c].daily_weather)
                 IN  (crops[c].has_weather /\ d >= 1 /\ d <= n) =>
                        LET log == logData.crop_logs[crops[c].name]
                            starts == StartsBelow(n - d + 1, CONFIG.STEP_SIZE)
                            bad == { j \in starts : forecastDf[j + 1].date = InvalidDate }
                        IN  IF bad = {}
                            THEN /\ log.windows_stats.total_windows = ((n - d) \div CONFIG.STEP_SIZE) + 1
                                 /\ DOMAIN log.windows = StartDates(starts)
                                 /\ ~\E e \in DOMAIN logData.errors : logData.errors[e].crop = crops[c].name
                            ELSE LET first == CHOOSE j \in bad : \A k \in bad : j <= k
                                 IN  /\ log.windows_stats.total_windows = (first \div CONFIG.STEP_SIZE) + 1
                                     /\ DOMAIN log.windows = StartDates(StartsBelow(first, CONFIG.STEP_SIZE))
                                     /\ \E e \in DOMAIN logData.errors : logData.errors[e].crop = crops[c].name
                                     /\ crops[c].name \notin ResultNames

\* C16 witness: a returned run with STEP_SIZE 2 in which a crop of one day
\* had the windows that start at 0 and 2 of a four-day forecast processed
C16_Witness ==
    /\ pc = "done"
    /\ CONFIG.STEP_SIZE = 2
    /\ Len(forecastDf) = 4
    /\ \E c \in DOMAIN crops :
          /\ crops[c].has_weather
          /\ Len(crops[c].daily_weather) = 1
          /\ logData.crop_logs[crops[c].name].windows_stats.total_windows = 2
          /\ DOMAIN logData.crop_logs[crops[c].name].windows = {forecastDf[1].date, forecastDf[3].date}
          /\ forecastDf[1].date # forecastDf[3].date

\* the days on which the window and the history both hold a number for the
\* variable; a day without the key holds none
PairDays(windowData, cropData, varName) ==
    { j \in DOMAIN windowData :
        /\ j \in DOMAIN cropData
        /\ IsValidVal(GetVal(windowData[j], varName))
        /\ IsValidVal(GetVal(cropData[j], varName)) }

\* every day of the window and of the history has the key of the variable
FoundInData(windowData, cropData, varName) ==
    /\ \A j \in DOMAIN windowData : HasField(windowData[j], varName)
    /\ \A j \in DOMAIN cropData : HasField(cropData[j], varName)

\* the variable score of the pairs of the given days, day j of the window
\* with day j of the history
PairScore(windowData, cropData, varName, days, k) ==
    SumSeq([j \in DOMAIN windowData |->
              IF j \in days
              THEN logisticScore(RelDelta(windowData[j].vals[varName].v,
                                          cropData[j].vals[varName].v), k)
              ELSE 0]) \div Cardinality(days)

\* the detail computeScore returns for the variable is that of the given days
ContributesDays(res, varName, days) ==
    /\ varName \in DOMAIN res.variables
    /\ res.variables[varName].valid_points = Cardinality(days)
    /\ res.variables[varName].score =
          PairScore(windowDf, cropDf, varName, days, res.variables[varName].k_value)

\* C17 (the claim as stated): in every call of computeScore, for each
\* required variable, the days on which either side is missing, null or NaN
\* are dropped and the other days are paired by index and scored; the
\* variable is skipped, with a warning, only when no valid pair remains.
C17_PairBuilding ==
    [][scoreCalls' # scoreCalls =>
         \A f \in DOMAIN CONFIG.REQUIRED_FIELDS :
            LET varName == CONFIG.REQUIRED_FIELDS[f]
                days == PairDays(windowDf, cropDf, varName)
            IN  IF days # {}
                THEN ContributesDays(Scored, varName, days)
                ELSE /\ varName \notin DOMAIN Scored.variables
                     /\ \E w \in DOMAIN Scored.warnings : Scored.warnings[w][2] = varName]_vars

\* C17 (amended): a variable whose key is absent from some day of the
\* window or of the history is skipped with the warning "not found in
\* data", whatever the other days hold; a variable found in every day has
\* its null and NaN days dropped, is scored on the other days paired by
\* index, and is skipped with "no valid data points" only when no valid
\* pair remains.
C17_PairBuildingWhenFound ==
    [][scoreCalls' # scoreCalls =>
         \A f \in DOMAIN CONFIG.REQUIRED_FIELDS :
            LET varName == CONFIG.REQUIRED_FIELDS[f]
                days == PairDays(windowDf, cropDf, varName)
            IN  IF ~FoundInData(windowDf, cropDf, varName)
                THEN /\ varName \notin DOMAIN Scored.variables
                     /\ \E w \in DOMAIN Scored.warnings :
                           Scored.warnings[w] = <<"not found in data", varName>>
                ELSE IF days # {}
                THEN ContributesDays(Scored, varName, days)
                ELSE /\ varName \notin DOMAIN Scored.variables
                     /\ \E w \in DOMAIN Scored.warnings :
                           Scored.warnings[w] = <<"no valid data points", varName>>]_vars

\* C17 witness: computeScore has been called for a window of two or more
\* days in which a variable found in every day was scored on fewer valid
\* pairs than the window has days
C17_Witness ==
    /\ scoreCalls # <<>>
    /\ \E n \in DOMAIN logData.crop_logs :
          \E w \in DOMAIN logData.crop_logs[n].windows :
             \E v \in DOMAIN logData.crop_logs[n].windows[w].variables :
                LET detail == logData.crop_logs[n].windows[w].variables[v]
                IN  /\ detail.valid_points >= 1
                    /\ detail.valid_points < logData.crop_logs[n].duration_days

\* the largest range among the variables of baseImportance that some day of
\* the crop has
LargestRange(cropRec, importance) ==
    MaxOf({ calculateRange(ValuesOf(cropRec.daily_weather, u)) :
              u \in { x \in ImportanceKeys(importance) : InSomeDay(cropRec.daily_weather, x) } })

\* C18 (the claim as stated): for every calibrated crop and every variable
\* of baseImportance that some daily record has, with range the range of
\* the variable and M the largest range among the crop's variables, the
\* logged range is range / M, the variation factor is
\* max(0.1, 1.0 - 0.5 x (range / M)), which is 1 - range / 2M since range <= M,
\* and k_value is the importance times that factor; the variable with the
\* largest range gets variation factor 0.5.
C18_KValueFormula ==
    \A e \in DOMAIN calibrationLogs :
        LET entry == calibrationLogs[e]
            cropRec == CalCrop(entry.crop)
        IN  InSomeDay(cropRec.daily_weather, entry.variable) =>
              LET range == calculateRange(ValuesOf(cropRec.daily_weather, entry.variable))
                  M == LargestRange(cropRec, baseImportance)
              IN  /\ entry.range.num * M = range * entry.range.den
                  /\ entry.variation_factor.num * 2 * M = (2 * M - range) * entry.variation_factor.den
                  /\ entry.k_value.num * 2 * M = entry.importance.v * (2 * M - range) * entry.k_value.den
                  /\ range = M => 2 * entry.variation_factor.num = entry.variation_factor.den
                  /\ cropRec.k_values[entry.variable] = entry.k_value

\* C19 (the claim as stated): the k recorded in the detail of every scored
\* variable of every window is the crop's own k value for the variable when
\* the crop has one that is not null, the value 0 included, and DEFAULT_K
\* when the crop has none or a null one.
C19_OwnKUsed ==
    \A n \in DOMAIN logData.crop_logs :
        LET own == logData.crop_logs[n].k_values_used
        IN  \A w \in DOMAIN logData.crop_logs[n].windows :
               \A v \in DOMAIN logData.crop_logs[n].windows[w].variables :
                  logData.crop_logs[n].windows[w].variables[v].k_value =
                     IF v \in DOMAIN own /\ own[v].kind = "num" THEN own[v].v
                     ELSE CONFIG.DEFAULT_K

\* the logged entry of a variable that the crop's data has: the normalized
\* range is in (0, 1], the variation factor is 1 - range / 2, which is in
\* [0.5, 1), and the 0.1 floor is not the value taken
FactorWithinBounds(entry) ==
    /\ entry.range.den > 0
    /\ 0 < entry.range.num
    /\ entry.range.num <= entry.range.den
    /\ entry.variation_factor.den > 0
    /\ entry.variation_factor.den <= 2 * entry.variation_factor.num
    /\ entry.variation_factor.num < entry.variation_factor.den
    /\ entry.variation_factor.num * 2 * entry.range.den =
          (2 * entry.range.den - entry.range.num) * entry.variation_factor.den
    /\ 10 * entry.variation_factor.num # entry.variation_factor.den

\* C21 (the claim as stated): for every crop and every variable present in
\* the crop's data, the normalized range is in (0, 1], the variation factor
\* is in [0.5, 1) and never the 0.1 floor, and for a base importance that
\* is not negative 0.5 x base <= k_value < base.
C21_KValueBounds ==
    \A e \in DOMAIN calibrationLogs :
        LET entry == calibrationLogs[e]
        IN  InSomeDay(CalCrop(entry.crop).daily_weather, entry.variable) =>
              /\ FactorWithinBounds(entry)
              /\ entry.importance.v >= 0 =>
                    /\ entry.k_value.den > 0
                    /\ entry.importance.v * entry.k_value.den <= 2 * entry.k_value.num
                    /\ entry.k_value.num < entry.importance.v * entry.k_value.den

\* C21 (amended): the bounds on the normalized range and on the variation
\* factor as stated; for a positive base importance
\* 0.5 x base <= k_value < base, and for a base importance of 0 the k_value
\* is 0, which is not below the base.
C21_KValueBoundsPositiveBase ==
    \A e \in DOMAIN calibrationLogs :
        LET entry == calibrationLogs[e]
        IN  InSomeDay(CalCrop(entry.crop).daily_weather, entry.variable) =>
              /\ FactorWithinBounds(entry)
              /\ entry.k_value.den > 0
              /\ entry.importance.v > 0 =>
                    /\ entry.importance.v * entry.k_value.den <= 2 * entry.k_value.num
                    /\ entry.k_value.num < entry.importance.v * entry.k_value.den
              /\ entry.importance.v = 0 => entry.k_value.num = 0

\* C21 witness: a logged entry of a variable with a positive base
\* importance whose normalized range is strictly between 0 and 1, with
\* another entry of the same crop whose base importance is 0
C21_Witness ==
    \E e, z \in DOMAIN calibrationLogs :
        /\ calibrationLogs[e].crop = calibrationLogs[z].crop
        /\ calibrationLogs[e].importance.v > 0
        /\ 0 < calibrationLogs[e].range.num
        /\ calibrationLogs[e].range.num < calibrationLogs[e].range.den
        /\ calibrationLogs[z].importance.v = 0
        /\ calibrationLogs[z].range.den > 0

====
